---- MODULE Spec2Model ----
(***************************************************************************)
(* Model of src/external_trait_impls/rayon/raw.rs: the rayon producers of  *)
(* hashbrown's RawTable.  RawIntoParIter (freeing) and RawParDrain         *)
(* (draining) both drive a tree of ParDrainProducer values obtained by     *)
(* split; every leaf is folded element by element into a consumer that may *)
(* saturate (full) or panic, and every producer dropped while armed        *)
(* destroys in place what is left of its range.                            *)
(***************************************************************************)
EXTENDS Integers, Sequences, FiniteSets

\* Number of bucket slots of the table.
NSlots == 5

\* Number of split calls the scheduler may make in one drive.
MaxSplits == 2

Slots == 0 .. (NSlots - 1)

\* Producers are named by their place in the split tree: the root is 1 and
\* the halves of producer p are 2p (left) and 2p+1 (right).
RECURSIVE Pow2(_)
Pow2(n) == IF n = 0 THEN 1 ELSE 2 * Pow2(n - 1)

ProdIds == 1 .. (Pow2(MaxSplits + 1) - 1)

\* Option::None of a slot handle.
None == 0 - 1

VARIABLES
    kind,        \* "into": RawIntoParIter, "drain": RawParDrain
    needsDrop,   \* mem::needs_drop::<T>()
    occ,         \* the slots occupied when the parallel iterator was made
    ctrl,        \* the table's occupancy metadata: the slots marked full
    alloc,       \* the backing allocation: "none", "live" or "freed"
    deallocs,    \* number of dealloc calls made
    tableOps,    \* table-level operations applied: "clear", "clear_no_drop"
    reads,       \* per slot, number of Bucket::read calls (element moved out)
    drops,       \* per slot, number of Bucket::drop calls (destroyed in place)
    par,         \* the parallel iterator: "created", "driving", "returned",
                 \* "unwound", "dropped" (never driven) or "aborted"
    selfArmed,   \* the destructor of RawParDrain has not been disarmed
    guard,       \* the scopeguard of drive_unindexed: "none", "armed", "fired"
    prod,        \* the ParDrainProducer values, by place in the split tree
    full,        \* Folder::full() of the (shared) consumer
    satAt,       \* elements consumed when the consumer became full, or None
    cpanic,      \* some Folder::consume call panicked
    dpanic       \* some Bucket::drop call panicked

vars == <<kind, needsDrop, occ, ctrl, alloc, deallocs, tableOps, reads, drops,
          par, selfArmed, guard, prod, full, satAt, cpanic, dpanic>>

----------------------------------------------------------------------------
\* RawIterRange and Bucket: the table collaborator's iterator.

\* RawIterRange::next: the first full slot of [c, e), or None.
NextFull(c, e) ==
    IF \E s \in c .. (e - 1) : s \in ctrl
    THEN CHOOSE s \in c .. (e - 1) : s \in ctrl /\ \A t \in c .. (s - 1) : t \notin ctrl
    ELSE None

\* The full slots a range [c, e) has still to visit.
Pending(c, e) == {s \in c .. (e - 1) : s \in ctrl}

\* RawIterRange::split: the left half and, if non-empty, the right half.
SplitMid(c, e) == c + ((e - c + 1) \div 2)

NoProd == [st |-> "none", next |-> 0, end |-> 0, got |-> <<>>, hand |-> None]

\* ParDrainProducer { iter }: a fresh, armed producer over [c, e).
NewProd(c, e) == [st |-> "ready", next |-> c, end |-> e, got |-> <<>>, hand |-> None]

\* A producer whose destructor is armed: neither forgotten nor already dropped.
Live(r) == r.st \in {"ready", "holding"}

NSplits == Cardinality({p \in ProdIds : prod[p].st = "split"})

\* As AllDone with the guard not waiting for the bridge to return.
AllDoneEarly == TRUE

AllDone == \A p \in ProdIds : ~Live(prod[p])

Bump(f, S) == [s \in Slots |-> IF s \in S THEN f[s] + 1 ELSE f[s]]

----------------------------------------------------------------------------
Init ==
    /\ kind \in {"into", "drain"}
    /\ needsDrop \in BOOLEAN
    /\ occ \in SUBSET Slots
    /\ ctrl = occ
    \* Only a table holding nothing can be the unallocated empty singleton.
    /\ alloc \in (IF occ = {} THEN {"none", "live"} ELSE {"live"})
    /\ deallocs = 0
    /\ tableOps = <<>>
    /\ reads = [s \in Slots |-> 0]
    /\ drops = [s \in Slots |-> 0]
    /\ par = "created"
    /\ selfArmed = TRUE
    /\ guard = "none"
    /\ prod = [p \in ProdIds |-> NoProd]
    /\ full \in BOOLEAN
    /\ satAt = IF full THEN 0 ELSE None
    /\ cpanic = FALSE
    /\ dpanic = FALSE

----------------------------------------------------------------------------
\* The table collaborator's operations.

\* RawTable::clear_no_drop: mark every slot empty, touch no element.
ClearNoDrop ==
    /\ ctrl' = {}
    /\ tableOps' = Append(tableOps, "clear_no_drop")
    /\ UNCHANGED <<drops, alloc, deallocs>>

\* RawTable::clear: drop every remaining element, then mark the table empty.
Clear ==
    /\ drops' = Bump(drops, ctrl)
    /\ ctrl' = {}
    /\ tableOps' = Append(tableOps, "clear")
    /\ UNCHANGED <<alloc, deallocs>>

\* As DeallocGuard without the test for Some: dealloc whatever into_alloc gave.
DeallocUnchecked ==
    /\ alloc' = IF alloc = "live" THEN "freed" ELSE alloc
    /\ deallocs' = deallocs + 1
    /\ UNCHANGED <<ctrl, tableOps, drops>>

\* The guard of RawIntoParIter::drive_unindexed: dealloc if into_alloc gave
\* Some((ptr, layout)).
DeallocGuard ==
    /\ alloc' = IF alloc = "live" THEN "freed" ELSE alloc
    /\ deallocs' = IF alloc = "live" THEN deallocs + 1 ELSE deallocs
    /\ UNCHANGED <<ctrl, tableOps, drops>>

----------------------------------------------------------------------------
\* The parallel iterators.

\* RawTable::iter: the range over all the table's slots; the unallocated
\* empty singleton has none.
TableEnd == IF alloc = "none" THEN 0 ELSE NSlots

\* As ForgetDrain with mem::forget(self) left out.
KeepDrainArmed == TRUE

\* RawParDrain::drive_unindexed line 104: mem::forget(self).
ForgetDrain == FALSE

\* drive_unindexed of RawIntoParIter and of RawParDrain, up to the call of
\* bridge_unindexed: arm the guard, take the table's iterator, make the root
\* producer.
Drive ==
    /\ par = "created"
    /\ par' = "driving"
    /\ guard' = "armed"
    /\ selfArmed' = IF kind = "drain" THEN ForgetDrain ELSE selfArmed
    /\ prod' = [prod EXCEPT ![1] = NewProd(0, TableEnd)]
    /\ UNCHANGED <<kind, needsDrop, occ, ctrl, alloc, deallocs, tableOps, reads,
                   drops, full, satAt, cpanic, dpanic>>

\* As DrainExit with the guard calling clear() in place of clear_no_drop().
DrainExitClear == Clear

\* RawParDrain::drive_unindexed leaves its scope: _guard runs clear_no_drop
\* and self, unless forgotten, is dropped, which clears the table.
DrainExit ==
    IF selfArmed
    THEN /\ drops' = drops
         /\ ctrl' = {}
         /\ tableOps' = tableOps \o <<"clear_no_drop", "clear">>
         /\ UNCHANGED <<alloc, deallocs>>
    ELSE ClearNoDrop

\* The table-level cleanup that the scope exit of drive_unindexed runs.
GuardFires == IF kind = "into" THEN DeallocGuard ELSE DrainExit

\* bridge_unindexed returns or resumes unwinding once every branch is
\* finished; leaving drive_unindexed drops _guard.
DriveExit ==
    /\ par = "driving"
    /\ AllDone
    /\ par' = IF cpanic \/ dpanic THEN "unwound" ELSE "returned"
    /\ guard' = "fired"
    /\ GuardFires
    /\ UNCHANGED <<kind, needsDrop, occ, reads, selfArmed, prod, full, satAt,
                   cpanic, dpanic>>

\* As DrainDropOp calling clear_no_drop instead of clear.
DrainDropNoDrop == ClearNoDrop

\* What Drop for RawParDrain applies to the table.
DrainDropOp == Clear

\* Drop for RawParDrain: drive_unindexed was never called.
DropUndriven ==
    /\ kind = "drain"
    /\ par = "created"
    /\ selfArmed
    /\ par' = "dropped"
    /\ DrainDropOp
    /\ UNCHANGED <<kind, needsDrop, occ, reads, selfArmed, guard, prod, full,
                   satAt, cpanic, dpanic>>

----------------------------------------------------------------------------
\* ParDrainProducer.

\* As ForgetParent with mem::forget(self) left out: the parent stays armed.
KeepParent(r) == r

\* split line 129: mem::forget(self), the parent is disarmed.
ForgetParent(r) == [r EXCEPT !.st = "split"]

\* split line 130: the left child carries the left half.
LeftChild(r) == NewProd(r.next, SplitMid(r.next, r.end))

\* As RightChild carrying the unsplit clone instead of the right half.
RightChildWhole(r) == NewProd(r.next, r.end)

\* As RightChild with a right half returned whatever its span.
RightChildAlways(r) == NewProd(SplitMid(r.next, r.end), r.end)

\* split line 131: the right child, if the right half is not empty.
RightChild(r) ==
    IF SplitMid(r.next, r.end) < r.end
    THEN NewProd(SplitMid(r.next, r.end), r.end)
    ELSE NoProd

\* The scheduler splits a producer it has not folded, while the consumer is
\* not full and its split budget lasts.
Split(p) ==
    /\ par = "driving"
    /\ prod[p].st = "ready"
    /\ ~full
    /\ NSplits < MaxSplits
    /\ 2 * p + 1 \in ProdIds
    /\ prod' = [prod EXCEPT ![p] = ForgetParent(prod[p]),
                            ![2 * p] = LeftChild(prod[p]),
                            ![2 * p + 1] = RightChild(prod[p])]
    /\ UNCHANGED <<kind, needsDrop, occ, ctrl, alloc, deallocs, tableOps, reads,
                   drops, par, selfArmed, guard, full, satAt, cpanic, dpanic>>

\* As Exhausted with the loop of fold_with started over, not left, when the
\* range has run out.
ExhaustedRetry(r) == [r EXCEPT !.st = "ready", !.next = r.end, !.hand = None]

\* fold_with line 150: the range is exhausted, mem::forget(self).
Exhausted(r) == [r EXCEPT !.st = "done", !.next = r.end, !.hand = None]

\* As Advance taking the last full slot of the range (next_back for next).
AdvanceBack(r) ==
    IF Pending(r.next, r.end) = {}
    THEN Exhausted(r)
    ELSE LET m == CHOOSE s \in Pending(r.next, r.end) :
                      \A u \in Pending(r.next, r.end) : u <= s
         IN [r EXCEPT !.st = "holding", !.hand = m, !.end = m]

\* fold_with line 142-143: self.iter.next() and item.read().
Advance(r) ==
    IF NextFull(r.next, r.end) = None
    THEN Exhausted(r)
    ELSE [r EXCEPT !.st = "holding", !.hand = NextFull(r.next, r.end),
                   !.next = NextFull(r.next, r.end) + 1]

\* The slot that a step from record r to record n has read.
ReadBy(r, n) == IF n.st = "holding" /\ n.next > r.next THEN {n.hand} ELSE {}

\* As DropVisits with the destructor going over the whole table.
DropVisitsAll(r) == IF needsDrop THEN Pending(0, NSlots) ELSE {}

\* As DropVisits without the mem::needs_drop::<T>() test.
DropVisitsUnguarded(r) == Pending(r.next, r.end)

\* Drop for ParDrainProducer line 159-165: the slots the destructor visits.
DropVisits(r) == IF needsDrop THEN Pending(r.next, r.end) ELSE {}

\* Drop for ParDrainProducer: the loop runs to the end of the range (s = None)
\* or is left when item.drop() of slot s panics.
DropLoop(r, s) ==
    [r EXCEPT !.st = "dropped", !.hand = None,
              !.next = IF s # None THEN s + 1
                       ELSE IF needsDrop THEN r.end ELSE r.next]

\* As DropBy with a destructor that acts only once a fold was started.
DropByFolded(r, n, s) ==
    IF n.st # "dropped" \/ r.got = <<>> THEN {}
    ELSE IF s = None THEN DropVisits(r)
    ELSE {t \in DropVisits(r) : t <= s}

\* The slots destroyed by a step that takes record r to record n, the
\* destructor having panicked at slot s or not at all (None).
DropBy(r, n, s) ==
    IF n.st # "dropped" THEN {}
    ELSE IF s = None THEN DropVisits(r)
    ELSE {t \in DropVisits(r) : t <= s}

\* Whether item.drop() may panic at s when record r is dropped.
MayPanicAt(r, s) == s = None \/ s \in DropVisits(r)

\* The scheduler found the consumer not full and calls fold_with, which
\* takes its first element without asking the folder.  Taking an element
\* touches only the leaf's own range, so the step runs from the scheduler's
\* test of full() to the element being in hand; passing it to the folder is
\* the next step, and other leaves may saturate the consumer in between.
FoldStart(p) ==
    /\ par = "driving"
    /\ prod[p].st = "ready"
    /\ ~full
    /\ prod' = [prod EXCEPT ![p] = Advance(prod[p])]
    /\ reads' = Bump(reads, ReadBy(prod[p], Advance(prod[p])))
    /\ UNCHANGED <<kind, needsDrop, occ, ctrl, alloc, deallocs, tableOps, drops,
                   par, selfArmed, guard, full, satAt, cpanic, dpanic>>

RECURSIVE SumGot(_)
SumGot(S) ==
    IF S = {} THEN 0
    ELSE LET p == CHOOSE q \in S : TRUE
         IN Len(prod[p].got) + SumGot(S \ {p})

\* Number of elements passed to the consumer so far.
Consumed == SumGot(ProdIds)

\* As ReturnFull with self forgotten before the early return.
ReturnFullForgotten(r, s) == [r EXCEPT !.st = "done", !.hand = None]

\* fold_with line 144-146: the folder is full, return it; self goes out of
\* scope armed, so its destructor runs (to the end, or to a panic at s).
ReturnFull(r, s) == DropLoop(r, s)

\* As AfterConsume without the test of folder.full().
AfterConsumeNoCheck(r, isFull, s) == Advance(r)

\* fold_with line 144: after consume, stop if folder.full(), else go on.
AfterConsume(r, isFull, s) == IF isFull THEN ReturnFull(r, s) ELSE Advance(r)

\* fold_with line 143-147: the element in hand is passed to folder.consume,
\* which may saturate the consumer (sat); then folder.full() decides.
FoldConsume(p, sat, s) ==
    /\ par = "driving"
    /\ prod[p].st = "holding"
    /\ LET fed == [prod[p] EXCEPT !.got = Append(@, prod[p].hand)]
           nowFull == full \/ sat
           nxt == AfterConsume(fed, nowFull, s)
       IN /\ MayPanicAt(fed, s)
          /\ s # None => nowFull
          /\ full' = nowFull
          /\ satAt' = IF ~full /\ sat THEN Consumed + 1 ELSE satAt
          /\ prod' = [prod EXCEPT ![p] = nxt]
          /\ reads' = Bump(reads, ReadBy(fed, nxt))
          /\ drops' = Bump(drops, DropBy(fed, nxt, s))
          /\ dpanic' = (dpanic \/ s # None)
    /\ UNCHANGED <<kind, needsDrop, occ, ctrl, alloc, deallocs, tableOps,
                   par, selfArmed, guard, cpanic>>

\* As UnwindFold with self disarmed before the loop: unwinding drops nothing.
UnwindForgotten(r, s) == [r EXCEPT !.st = "done", !.hand = None]

\* fold_with unwinds out of folder.consume: self, still armed, is dropped by
\* the unwinding.
UnwindFold(r, s) == DropLoop(r, s)

\* folder.consume panics with the element in hand already moved into it; a
\* second panic, of item.drop() during the unwinding, aborts the process.
ConsumePanic(p, s) ==
    /\ par = "driving"
    /\ prod[p].st = "holding"
    /\ LET fed == [prod[p] EXCEPT !.got = Append(@, prod[p].hand)]
           nxt == UnwindFold(fed, s)
       IN /\ MayPanicAt(fed, s)
          /\ prod' = [prod EXCEPT ![p] = nxt]
          /\ drops' = Bump(drops, DropBy(fed, nxt, s))
    /\ cpanic' = TRUE
    /\ dpanic' = (dpanic \/ s # None)
    /\ par' = IF s # None THEN "aborted" ELSE par
    /\ UNCHANGED <<kind, needsDrop, occ, ctrl, alloc, deallocs, tableOps, reads,
                   selfArmed, guard, full, satAt>>

\* The scheduler found the consumer full: the producer is dropped unfolded.
Discard(p, s) ==
    /\ par = "driving"
    /\ prod[p].st = "ready"
    /\ full
    /\ MayPanicAt(prod[p], s)
    /\ prod' = [prod EXCEPT ![p] = DropLoop(prod[p], s)]
    /\ drops' = Bump(drops, DropBy(prod[p], DropLoop(prod[p], s), s))
    /\ dpanic' = (dpanic \/ s # None)
    /\ UNCHANGED <<kind, needsDrop, occ, ctrl, alloc, deallocs, tableOps, reads,
                   par, selfArmed, guard, full, satAt, cpanic>>

----------------------------------------------------------------------------
\* The borrowing path: RawTable::par_iter, RawParIter, ParIterProducer.  The
\* producers are kept in prod like the draining ones; they have no destructor
\* and hand out Bucket handles, reading nothing.

\* RawTable::par_iter: a RawParIter over the table, not yet driven.
InitIter ==
    /\ kind = "iter"
    /\ needsDrop \in BOOLEAN
    /\ occ \in SUBSET Slots
    /\ ctrl = occ
    /\ alloc \in (IF occ = {} THEN {"none", "live"} ELSE {"live"})
    /\ deallocs = 0
    /\ tableOps = <<>>
    /\ reads = [s \in Slots |-> 0]
    /\ drops = [s \in Slots |-> 0]
    /\ par = "borrowed"
    /\ selfArmed = FALSE
    /\ guard = "none"
    /\ prod = [p \in ProdIds |-> NoProd]
    /\ full \in BOOLEAN
    /\ satAt = IF full THEN 0 ELSE None
    /\ cpanic = FALSE
    /\ dpanic = FALSE

\* RawParIter::drive_unindexed: ParIterProducer { iter: self.iter }.
IterDrive ==
    /\ par = "borrowed"
    /\ par' = "iterating"
    /\ prod' = [prod EXCEPT ![1] = NewProd(0, TableEnd)]
    /\ UNCHANGED <<kind, needsDrop, occ, ctrl, alloc, deallocs, tableOps, reads,
                   drops, selfArmed, guard, full, satAt, cpanic, dpanic>>

\* ParIterProducer::split line 41: self.iter.split() consumes the parent.
IterParent(r) == [r EXCEPT !.st = "split"]

\* ParIterProducer::split line 42: the left child carries the left half.
IterLeft(r) == NewProd(r.next, SplitMid(r.next, r.end))

\* As IterRight carrying the parent's whole range.
IterRightWhole(r) == NewProd(r.next, r.end)

\* ParIterProducer::split line 43: right.map(..), the right half if any.
IterRight(r) ==
    IF SplitMid(r.next, r.end) < r.end
    THEN NewProd(SplitMid(r.next, r.end), r.end)
    ELSE NoProd

\* The scheduler splits a borrowing producer it has not folded.
IterSplit(p) ==
    /\ par = "iterating"
    /\ prod[p].st = "ready"
    /\ ~full
    /\ NSplits < MaxSplits
    /\ 2 * p + 1 \in ProdIds
    /\ prod' = [prod EXCEPT ![p] = IterParent(prod[p]),
                            ![2 * p] = IterLeft(prod[p]),
                            ![2 * p + 1] = IterRight(prod[p])]
    /\ UNCHANGED <<kind, needsDrop, occ, ctrl, alloc, deallocs, tableOps, reads,
                   drops, par, selfArmed, guard, full, satAt, cpanic, dpanic>>

\* As IterTaken with the element moved out of the bucket (item.read()).
IterTakenRead(r, n) == ReadBy(r, n)

\* ParIterProducer::fold_with line 52: the folder is given Bucket handles;
\* no element is read out of its slot.
IterTaken(r, n) == {}

\* folder.consume_iter(self.iter) pulls the first handle of the range.
IterFoldStart(p) ==
    /\ par = "iterating"
    /\ prod[p].st = "ready"
    /\ ~full
    /\ prod' = [prod EXCEPT ![p] = Advance(prod[p])]
    /\ reads' = Bump(reads, IterTaken(prod[p], Advance(prod[p])))
    /\ UNCHANGED <<kind, needsDrop, occ, ctrl, alloc, deallocs, tableOps, drops,
                   par, selfArmed, guard, full, satAt, cpanic, dpanic>>

\* folder.consume_iter stops pulling: the iterator is dropped, and a
\* RawIterRange has no destructor.
IterAbandon(r) == [r EXCEPT !.st = "dropped", !.hand = None]

\* folder.consume_iter: consume the handle in hand, then stop if full() or
\* pull the next one.
IterFoldConsume(p, sat) ==
    /\ par = "iterating"
    /\ prod[p].st = "holding"
    /\ LET fed == [prod[p] EXCEPT !.got = Append(@, prod[p].hand)]
           nowFull == full \/ sat
           nxt == IF nowFull THEN IterAbandon(fed) ELSE Advance(fed)
       IN /\ full' = nowFull
          /\ satAt' = IF ~full /\ sat THEN Consumed + 1 ELSE satAt
          /\ prod' = [prod EXCEPT ![p] = nxt]
          /\ reads' = Bump(reads, IterTaken(fed, nxt))
    /\ UNCHANGED <<kind, needsDrop, occ, ctrl, alloc, deallocs, tableOps, drops,
                   par, selfArmed, guard, cpanic, dpanic>>

\* The scheduler found the consumer full: the producer is dropped unfolded.
IterDiscard(p) ==
    /\ par = "iterating"
    /\ prod[p].st = "ready"
    /\ full
    /\ prod' = [prod EXCEPT ![p] = IterAbandon(prod[p])]
    /\ UNCHANGED <<kind, needsDrop, occ, ctrl, alloc, deallocs, tableOps, reads,
                   drops, par, selfArmed, guard, full, satAt, cpanic, dpanic>>

\* bridge_unindexed returns: RawParIter::drive_unindexed has no guard.
IterExit ==
    /\ par = "iterating"
    /\ AllDone
    /\ par' = "iterated"
    /\ UNCHANGED <<kind, needsDrop, occ, ctrl, alloc, deallocs, tableOps, reads,
                   drops, selfArmed, guard, prod, full, satAt, cpanic, dpanic>>

NextIter ==
    \/ IterDrive
    \/ IterExit
    \/ \E p \in ProdIds : IterSplit(p)
    \/ \E p \in ProdIds : IterFoldStart(p)
    \/ \E p \in ProdIds, sat \in BOOLEAN : IterFoldConsume(p, sat)
    \/ \E p \in ProdIds : IterDiscard(p)

\* Drives of the borrowing parallel iterator.
SpecIter == InitIter /\ [][NextIter]_vars

----------------------------------------------------------------------------
\* Drives in which nothing panics.
Next ==
    \/ Drive
    \/ DriveExit
    \/ DropUndriven
    \/ \E p \in ProdIds : Split(p)
    \/ \E p \in ProdIds : FoldStart(p)
    \/ \E p \in ProdIds, sat \in BOOLEAN : FoldConsume(p, sat, None)
    \/ \E p \in ProdIds : Discard(p, None)

Spec == Init /\ [][Next]_vars

\* Drives in which folder.consume may panic.
NextUnwind ==
    \/ Next
    \/ \E p \in ProdIds : ConsumePanic(p, None)

SpecUnwind == Init /\ [][NextUnwind]_vars

\* Drives in which folder.consume and item.drop() may panic.
NextDropPanic ==
    \/ NextUnwind
    \/ \E p \in ProdIds, sat \in BOOLEAN, s \in Slots : FoldConsume(p, sat, s)
    \/ \E p \in ProdIds, s \in Slots : ConsumePanic(p, s)
    \/ \E p \in ProdIds, s \in Slots : Discard(p, s)

SpecDropPanic == Init /\ [][NextDropPanic]_vars

\* Drives of the three parallel iterators, nothing panicking.
InitAll == Init \/ InitIter

NextAll == Next \/ NextIter

SpecAll == InitAll /\ [][NextAll]_vars

\* Every branch the scheduler holds is eventually run or dropped, and a
\* finished bridge returns: no step of the drive waits for anything.
SpecFair == Init /\ [][Next]_vars /\ WF_vars(Next)

----------------------------------------------------------------------------
\* What the claims speak of.

Finished == par \in {"returned", "unwound"}

Occurrences(q, s) == Cardinality({i \in DOMAIN q : q[i] = s})

RECURSIVE SumYield(_, _)
SumYield(S, s) ==
    IF S = {} THEN 0
    ELSE LET p == CHOOSE q \in S : TRUE
         IN Occurrences(prod[p].got, s) + SumYield(S \ {p}, s)

\* Number of times the element of slot s was passed to the consumer.
Yielded(s) == SumYield(ProdIds, s)

\* The dropped producers that left slot s unvisited because the element type
\* needs no destruction: for such a type dropping the producer is all the
\* destruction there is.
Trivially(s) ==
    {p \in ProdIds : /\ ~needsDrop
                     /\ s \in occ
                     /\ prod[p].st = "dropped"
                     /\ prod[p].next <= s /\ s < prod[p].end}

\* Number of times the element of slot s was destroyed.
Destroyed(s) == drops[s] + Cardinality(Trivially(s))

RECURSIVE SumOver(_, _)
SumOver(f, S) ==
    IF S = {} THEN 0
    ELSE LET s == CHOOSE u \in S : TRUE IN f[s] + SumOver(f, S \ {s})

\* The armed producers whose pending range holds slot s.
Owners(s) ==
    {p \in ProdIds : Live(prod[p]) /\ prod[p].next <= s /\ s < prod[p].end}

\* An occupied slot whose element was neither moved out nor destroyed.
Untouched(s) == s \in occ /\ reads[s] = 0 /\ Destroyed(s) = 0

\* Each slot has been yielded once or destroyed once, and only if occupied.
OncePerSlot ==
    \A s \in Slots :
        /\ reads[s] = Yielded(s)
        /\ reads[s] + Destroyed(s) = (IF s \in occ THEN 1 ELSE 0)

\* The producers that passed at least one element to the consumer.
Folded == {p \in ProdIds : prod[p].got # <<>>}

RECURSIVE Ascending(_)
Ascending(S) ==
    IF S = {} THEN <<>>
    ELSE LET m == CHOOSE s \in S : \A u \in S : s <= u
         IN <<m>> \o Ascending(S \ {m})

Increasing(q) == \A i, j \in DOMAIN q : i < j => q[i] < q[j]

----------------------------------------------------------------------------
\* C1: when the consumer never saturates and nothing unwinds, a finished
\* drive (freeing or draining, under any splits and interleaving) has passed
\* the element of every occupied slot to the consumer exactly once, and
\* nothing else: no slot is read twice, none is left out, none is destroyed.
C1_YieldsExactlyStored ==
    (Finished /\ satAt = None) =>
        \A s \in Slots : /\ Yielded(s) = (IF s \in occ THEN 1 ELSE 0)
                         /\ reads[s] = Yielded(s)
                         /\ drops[s] = 0

C1_Witness ==
    /\ par = "returned" /\ satAt = None /\ kind = "drain"
    /\ NSplits = MaxSplits
    /\ Cardinality(occ) >= 4
    /\ Cardinality(Folded) >= 3
    /\ \A s \in occ : Yielded(s) = 1

C3_SingleOwner ==
    \A s \in Slots :
        Untouched(s) =>
            /\ par # "aborted"
            /\ par = "created" => Owners(s) = {}
            /\ par = "driving" => Cardinality(Owners(s)) = 1
            /\ ~Finished /\ par # "dropped"

C3_Witness ==
    /\ par = "driving"
    /\ \E p, q \in ProdIds :
          /\ p # q
          /\ prod[p].st = "holding" /\ prod[q].st = "ready"
          /\ \E s, u \in Slots : /\ Untouched(s) /\ Owners(s) = {p}
                                 /\ Untouched(u) /\ Owners(u) = {q}
    /\ \E p \in ProdIds : prod[p].st = "split"
    /\ \E p \in ProdIds : prod[p].st = "dropped"

\* C4: a freeing drive deallocates nothing before it is over and, however it
\* ends (exhaustion, saturation, unwinding), has then deallocated the
\* table's allocation exactly once; a table without allocation is never
\* deallocated.
C4_DeallocOnce ==
    kind = "into" =>
        /\ par \in {"created", "driving", "aborted"} => deallocs = 0 /\ alloc # "freed"
        /\ Finished => \/ alloc = "freed" /\ deallocs = 1
                       \/ alloc = "none" /\ deallocs = 0

C4_Witness ==
    /\ kind = "into" /\ par = "unwound" /\ cpanic
    /\ alloc = "freed" /\ deallocs = 1
    /\ occ # {}

\* C5: however a draining drive ends, the table is then empty, its
\* allocation was not deallocated, and the only table-level operation
\* applied is clear_no_drop, once: the table destroyed no element itself.
C5_DrainLeavesEmptyTable ==
    kind = "drain" =>
        /\ deallocs = 0 /\ alloc # "freed"
        /\ par = "driving" => tableOps = <<>> /\ ctrl = occ
        /\ Finished => ctrl = {} /\ tableOps = <<"clear_no_drop">>

C5_Witness ==
    /\ kind = "drain" /\ par = "returned" /\ satAt # None
    /\ occ # {} /\ ctrl = {} /\ alloc = "live"
    /\ \E s \in occ : drops[s] = 1
    /\ \E s \in occ : reads[s] = 1

\* C6: a RawParDrain dropped without having been driven leaves the table
\* empty, every element destroyed exactly once by the table's clear, the
\* allocation kept, and nothing yielded by any producer.
C6_UndrivenDrainClears ==
    par = "dropped" =>
        /\ kind = "drain"
        /\ ctrl = {}
        /\ tableOps = <<"clear">>
        /\ \A s \in Slots : drops[s] = (IF s \in occ THEN 1 ELSE 0) /\ reads[s] = 0
        /\ deallocs = 0 /\ alloc # "freed"
        /\ \A p \in ProdIds : prod[p] = NoProd

C6_Witness ==
    /\ par = "dropped" /\ Cardinality(occ) >= 3 /\ ctrl = {}
    /\ \A s \in occ : drops[s] = 1

\* C7: when folder.consume panics in some leaf, no slot is ever yielded or
\* destroyed twice, and once the drive has unwound every producer's
\* destructor has run, every occupied slot was yielded once or destroyed
\* once (the element in flight counts as yielded and is not destroyed), and
\* the table-level guard has fired: dealloc when freeing, clear_no_drop when
\* draining.
C7_ConsumerPanicCleansUp ==
    /\ \A s \in Slots : reads[s] + Destroyed(s) <= 1
    /\ (par = "unwound" /\ cpanic) =>
          /\ AllDone
          /\ OncePerSlot
          /\ guard = "fired"
          /\ kind = "into" => alloc # "live" /\ deallocs <= 1
          /\ kind = "drain" => ctrl = {} /\ tableOps = <<"clear_no_drop">>

C7_Witness ==
    /\ par = "unwound" /\ cpanic /\ needsDrop /\ satAt = None
    /\ NSplits >= 1
    /\ \E s \in occ : drops[s] = 1
    /\ \E s \in occ : reads[s] = 1
    /\ \E p \in ProdIds : prod[p].st = "done" /\ prod[p].got # <<>>

\* C8: when item.drop() panics inside the destructor of a producer and the
\* drive unwinds, the other unvisited elements of its range are still
\* destroyed: every occupied slot was yielded once or destroyed once.
C8_DropPanicNoLeak ==
    (par = "unwound" /\ dpanic /\ needsDrop) => OncePerSlot

\* C9 as stated: no element is ever passed to a folder whose full() is
\* already true.
C9_NeverFeedsFullFolder ==
    [][\A p \in ProdIds : Len(prod'[p].got) > Len(prod[p].got) => ~full]_vars

\* C9 amended: fold_with asks full() after each consume and, when the answer
\* is true, reads no further slot and returns; the element it already holds
\* (the first of the call, or one read before another leaf saturated the
\* shared consumer) is passed on without a check.
C9_StopsOnceFullSeen ==
    [][\A p \in ProdIds :
          (Len(prod'[p].got) > Len(prod[p].got) /\ full') =>
              (prod'[p].st # "holding" /\ reads' = reads)]_vars

C9_Witness ==
    \E p \in ProdIds :
        /\ prod[p].st = "dropped" /\ Len(prod[p].got) >= 2
        /\ satAt = Consumed
        /\ \E s \in occ : s < prod[p].end /\ s > prod[p].got[Len(prod[p].got)]
                          /\ reads[s] = 0

\* C10: every producer passes its elements in increasing slot address, and
\* a drive without split whose consumer never saturates passes all occupied
\* slots in address order and leaves the table cleared (draining) or
\* deallocated (freeing).
C10_AddressOrder ==
    /\ \A p \in ProdIds :
          /\ Increasing(prod[p].got)
          /\ prod[p].st = "holding" =>
                \A i \in DOMAIN prod[p].got : prod[p].got[i] < prod[p].hand
    /\ (Finished /\ NSplits = 0 /\ satAt = None) =>
          /\ prod[1].got = Ascending(occ)
          /\ kind = "drain" => ctrl = {} /\ tableOps = <<"clear_no_drop">>
          /\ kind = "into" => alloc # "live"

C10_Witness ==
    /\ par = "returned" /\ NSplits = 0 /\ kind = "drain"
    /\ Cardinality(occ) = 5
    /\ prod[1].got = <<0, 1, 2, 3, 4>>
    /\ ctrl = {}

----------------------------------------------------------------------------
\* The slots of the span [c, e).
Span(c, e) == {s \in Slots : c <= s /\ s < e}

\* Producer p is split in this step.
SplitStep(p) == prod[p].st = "ready" /\ prod'[p].st = "split"

\* C11: whenever a ParIterProducer or a ParDrainProducer is split, at any
\* depth, the left child starts where the parent's pending range starts, the
\* right child (or the left one when there is no right child) ends where it
\* ends, the right child starts where the left one ends, and so every slot
\* of the parent's range is in exactly one of the two halves and no other
\* slot is in either.
C11_SplitPartitions ==
    [][\A p \in ProdIds :
         SplitStep(p) =>
           LET l == prod'[2 * p]
               r == prod'[2 * p + 1]
               inL == Span(l.next, l.end)
               inR == IF r = NoProd THEN {} ELSE Span(r.next, r.end)
           IN /\ l.st = "ready"
              /\ l.next = prod[p].next
              /\ l.next <= l.end
              /\ IF r = NoProd
                 THEN l.end = prod[p].end
                 ELSE /\ r.st = "ready"
                      /\ r.next = l.end
                      /\ r.next <= r.end
                      /\ r.end = prod[p].end
              /\ inL \cup inR = Span(prod[p].next, prod[p].end)
              /\ inL \cap inR = {}]_vars

\* A borrowing drive split twice, the second split one level down: the
\* halves [3, 4) and [4, 5) of the right half [3, 5) of the table's range.
C11_Witness ==
    /\ kind = "iter"
    /\ prod[1].st = "split"
    /\ prod[3].st = "split"
    /\ prod[3].next = SplitMid(0, NSlots)
    /\ prod[6].st = "ready"
    /\ prod[7].st = "ready"
    /\ prod[6].end = prod[7].next
    /\ prod[7].end = NSlots

\* C12: a producer whose range spans no slot is split into a left half that
\* spans no slot, and so yields nothing, and no right half; and whenever a
\* split returns a right half, that half spans at least one slot.
C12_NoEmptyRightHalf ==
    [][\A p \in ProdIds :
         SplitStep(p) =>
           /\ prod[p].next = prod[p].end =>
                /\ prod'[2 * p + 1] = NoProd
                /\ prod'[2 * p].st = "ready"
                /\ Span(prod'[2 * p].next, prod'[2 * p].end) = {}
           /\ prod'[2 * p + 1] # NoProd =>
                prod'[2 * p + 1].next < prod'[2 * p + 1].end]_vars

\* The drain of a table without allocation splits its empty range: the left
\* half is there, empty, and there is no right half.
C12_Witness ==
    /\ kind = "drain"
    /\ alloc = "none"
    /\ prod[1].st = "split"
    /\ prod[1].next = prod[1].end
    /\ prod[2].st = "ready"
    /\ prod[2].next = prod[2].end
    /\ prod[3] = NoProd

----------------------------------------------------------------------------
\* C13: in a borrowing drive, whatever the splits, folds, saturation and
\* producers dropped unfolded, no step changes the table's occupancy, its
\* metadata or its allocation, or reads or destroys an element; no element
\* is ever read or destroyed, nothing is deallocated and no table-level
\* operation is applied; the handle of a slot is offered to the consumer at
\* most once and only if the slot is occupied, and exactly once for every
\* occupied slot when the drive ended with the consumer never full.
C13_BorrowingReadOnly ==
    /\ [](/\ \A s \in Slots : reads[s] = 0 /\ drops[s] = 0
          /\ ctrl = occ
          /\ alloc # "freed"
          /\ deallocs = 0
          /\ tableOps = <<>>
          /\ \A s \in Slots : Yielded(s) <= 1 /\ (Yielded(s) = 1 => s \in occ)
          /\ (par = "iterated" /\ satAt = None) =>
                \A s \in occ : Yielded(s) = 1)
    /\ [][UNCHANGED <<occ, ctrl, alloc, deallocs, tableOps, reads, drops>>]_vars

\* A borrowing drive over a full table of elements that need destruction,
\* split twice and ended by saturation: some handles were offered, some
\* never, and a producer with occupied slots was dropped unfolded.
C13_Witness ==
    /\ kind = "iter"
    /\ par = "iterated"
    /\ needsDrop
    /\ occ = Slots
    /\ NSplits = 2
    /\ satAt # None /\ satAt >= 2
    /\ \E s \in occ : Yielded(s) = 0
    /\ \E p \in ProdIds : /\ prod[p].st = "dropped"
                          /\ prod[p].got = <<>>
                          /\ prod[p].next < prod[p].end

----------------------------------------------------------------------------
\* C14: no table-level cleanup (clear_no_drop, dealloc) has been executed
\* while a producer of the drive is still live or while an occupied slot is
\* neither yielded nor destroyed, and no step taken while the drive is
\* under way changes the table's occupancy metadata, its allocation or the
\* table-level operations applied.
C14_CleanupAfterBranches ==
    /\ [](par # "dropped" /\ (tableOps # <<>> \/ alloc = "freed" \/ guard = "fired")
            => /\ \A p \in ProdIds : ~Live(prod[p])
               /\ \A s \in Slots : ~Untouched(s))
    /\ [](par = "driving" => ctrl = occ /\ tableOps = <<>> /\ deallocs = 0)
    /\ [][par = "driving" /\ par' = "driving"
            => UNCHANGED <<ctrl, alloc, deallocs, tableOps>>]_vars

\* A draining drive of a full table, split twice, unwound by a consumer
\* panic: producers were dropped, and only then was the table cleared.
C14_Witness ==
    /\ kind = "drain"
    /\ par = "unwound"
    /\ occ = Slots
    /\ NSplits = 2
    /\ guard = "fired"
    /\ tableOps = <<"clear_no_drop">>
    /\ \E p \in ProdIds : prod[p].st = "dropped"
    /\ \E p \in ProdIds : prod[p].st = "done" /\ prod[p].got # <<>>

\* C15: a RawParDrain not yet driven or dropped is armed and has applied no
\* table-level operation; while its drive is under way it is disarmed and
\* still none was applied; dropped undriven it applied clear, once, and
\* nothing else; after its drive returned or unwound it applied
\* clear_no_drop, once, and never clear.
C15_OneTableCleanup ==
    kind = "drain" =>
      /\ par \in {"created", "driving", "dropped", "returned", "unwound"}
      /\ par = "created" => selfArmed /\ tableOps = <<>>
      /\ par = "driving" => ~selfArmed /\ tableOps = <<>>
      /\ par = "dropped" => tableOps = <<"clear">>
      /\ Finished => ~selfArmed /\ tableOps = <<"clear_no_drop">>

\* A draining drive of a non-empty table has unwound from a consumer panic:
\* clear_no_drop was applied once, clear was not.
C15_Witness ==
    /\ kind = "drain"
    /\ par = "unwound"
    /\ cpanic
    /\ occ # {}
    /\ ~selfArmed
    /\ tableOps = <<"clear_no_drop">>

----------------------------------------------------------------------------
\* First slot of the range producer p is created with: the root has the
\* table's range, a left child starts where its parent does, a right child
\* at the parent's cut.
RECURSIVE Lo(_)
Lo(p) ==
    IF p = 1 THEN 0
    ELSE IF p % 2 = 0 THEN Lo(p \div 2)
    ELSE SplitMid(Lo(p \div 2), prod[p \div 2].end)

\* The occupied slots of the range producer p was created with.
Half(p) == {s \in occ : Lo(p) <= s /\ s < prod[p].end}

\* Producer p, armed, is dropped in this step.
DropStep(p) == Live(prod[p]) /\ prod'[p].st = "dropped"

\* C16: a split destroys nothing and leaves both children armed; from then
\* on the parent is disarmed for good, never changes and so destroys
\* nothing; and the step that drops a child destroys, once each, exactly
\* the occupied slots of the child's own half that were not yielded (none
\* when the element type needs no destruction), and no slot of its sibling
\* or of any other producer.
C16_SplitTransfersCleanup ==
    /\ [](\A p \in ProdIds :
            (2 * p \in ProdIds /\ prod[2 * p].st # "none") => prod[p].st = "split")
    /\ [][\A p \in ProdIds :
            /\ SplitStep(p) =>
                 /\ drops' = drops /\ reads' = reads
                 /\ prod'[2 * p].st = "ready"
                 /\ prod'[2 * p + 1].st \in {"ready", "none"}
            /\ prod[p].st = "split" => prod'[p] = prod[p]
            /\ DropStep(p) =>
                 \A s \in Slots :
                   drops'[s] = drops[s] +
                     (IF needsDrop /\ s \in Half(p) /\ reads'[s] = 0
                      THEN 1 ELSE 0)]_vars

\* Of two siblings the left one was dropped and destroyed a slot of its
\* half, while the right one is still armed and its slots are untouched.
C16_Witness ==
    /\ needsDrop
    /\ \E p \in ProdIds :
         /\ 2 * p + 1 \in ProdIds
         /\ prod[p].st = "split"
         /\ prod[2 * p].st = "dropped"
         /\ \E s \in Half(2 * p) : drops[s] = 1 /\ reads[s] = 0
         /\ Live(prod[2 * p + 1])
         /\ Half(2 * p + 1) # {}
         /\ \A u \in Half(2 * p + 1) : Untouched(u)

----------------------------------------------------------------------------
\* C18: the step that drops a ParDrainProducer which was never folded or
\* split moves no element out, and every occupied slot of the producer's
\* range, until then neither read nor destroyed, is destroyed in place in
\* that step exactly once: by item.drop() when the element type needs
\* destruction, and otherwise, no slot being visited, by the drop of the
\* producer alone; the other slots are left as they are.
C18_UnfoldedDropDestroysRange ==
    [][\A p \in ProdIds :
         (prod[p].st = "ready" /\ prod'[p].st = "dropped") =>
           /\ reads' = reads
           /\ \A s \in Slots :
                IF s \in Half(p)
                THEN /\ reads[s] = 0 /\ drops[s] = 0
                     /\ drops'[s] = (IF needsDrop THEN 1 ELSE 0)
                     /\ ~needsDrop => /\ prod'[p].next <= s
                                      /\ s < prod'[p].end
                ELSE drops'[s] = drops[s]]_vars

\* A branch of a split draining or freeing drive, never folded, was dropped
\* with at least two occupied slots in its range: each was destroyed once
\* and none was read.
C18_Witness ==
    /\ needsDrop
    /\ \E p \in ProdIds \ {1} :
         /\ prod[p].st = "dropped"
         /\ prod[p].got = <<>>
         /\ Cardinality(Half(p)) >= 2
         /\ \A s \in Half(p) : drops[s] = 1 /\ reads[s] = 0

\* C19: in a drive of elements that need no destruction no destructor ever
\* visits a slot; the step in which fold_with exhausts a producer's range
\* destroys nothing, every occupied slot of that range having been read and
\* none destroyed, and the producer, disarmed, never changes again; and the
\* drive that returns has all the same emptied the table's metadata with
\* one clear_no_drop, the allocation kept (draining), or released the
\* allocation if there was one (freeing).
C19_NoNeedlessDestructor ==
    /\ []((par \in {"driving", "returned"} /\ ~needsDrop) =>
            \A s \in Slots : drops[s] = 0)
    /\ [](par = "returned" =>
            IF kind = "drain"
            THEN ctrl = {} /\ tableOps = <<"clear_no_drop">> /\ deallocs = 0
            ELSE alloc # "live" /\ deallocs = (IF alloc = "freed" THEN 1 ELSE 0))
    /\ [][\A p \in ProdIds :
            /\ (Live(prod[p]) /\ prod'[p].st = "done") =>
                 /\ drops' = drops
                 /\ \A s \in Half(p) : reads'[s] = 1 /\ drops'[s] = 0
            /\ prod[p].st = "done" => prod'[p] = prod[p]]_vars

\* A draining drive of a full table of elements that need no destruction
\* has returned after saturation: one producer exhausted its range, another
\* was dropped with occupied slots it never visited, and the table is empty.
C19_Witness ==
    /\ kind = "drain"
    /\ par = "returned"
    /\ ~needsDrop
    /\ occ = Slots
    /\ ctrl = {}
    /\ \E p \in ProdIds : prod[p].st = "done" /\ prod[p].got # <<>>
    /\ \E p \in ProdIds : /\ prod[p].st = "dropped"
                          /\ \E s \in Half(p) : reads[s] = 0 /\ drops[s] = 0

----------------------------------------------------------------------------
\* The drive is over and nothing is left to do: no producer is live, every
\* occupied slot was yielded or destroyed, and the table-level guard fired.
Terminated ==
    /\ Finished
    /\ \A p \in ProdIds : ~Live(prod[p])
    /\ \A s \in Slots : ~Untouched(s)
    /\ guard = "fired"

\* C17: when every step that can be taken eventually is, and the number of
\* splits is finite, a freeing or draining drive that was started leads to
\* a state, which then lasts, where no producer is live, every occupied slot
\* was yielded or destroyed, and the table-level guard has fired.
C17_DriveTerminates == (par = "driving") ~> []Terminated

\* A draining drive split twice came to its end after saturation, elements
\* having been yielded and others destroyed.
C17_Witness ==
    /\ Terminated
    /\ kind = "drain"
    /\ satAt # None
    /\ NSplits = MaxSplits
    /\ \E s \in occ : reads[s] = 1
    /\ \E s \in occ : drops[s] = 1

====
